---- MODULE Spec2Model ----
(***************************************************************************)
(* Harvesting jobs of the ingestion package:                               *)
(*   price   - marketplace1_price_listing   (thread pool, rows per offer)  *)
(*   details - marketplace1_product_details (thread pool, one row an item) *)
(*   mp2     - marketplace2_product_details (sequential loop)              *)
(* One run of main() of one job is modelled per behaviour.                 *)
(***************************************************************************)
EXTENDS Integers, Sequences, FiniteSets, TLC

\* ---------------------------------------------------------------- bounds
MaxItems == 2
MaxOffers == 2

\* ------------------------------------------------------ program constants
DefaultWorkersPrice == 8
DefaultWorkersDetails == 6

\* ------------------------------------------------------------ input data
Jobs == {"price", "details", "mp2"}
PoolJobs == {"price", "details"}

\* Work items are kept as character sequences, as read from the input source.
Asins == {<<"A">>, <<"B">>}

\* Work items of the mp2 job are URLs, kept as character sequences.
GoodUrl == <<"h", ":", "/", "/", "a">>
BadUrl == <<"h", ":", "/", "a">>
Urls == {GoodUrl, BadUrl}

\* Optional[int]: <<>> is None, <<n>> is the integer n.
None == <<>>
ArgWorkerValues == {None, <<0>>, <<-1>>, <<2>>}
CfgWorkerValues == {None, <<0>>, <<-1>>}

SeqsUpTo(S, n) == UNION {[1..k -> S] : k \in 0..n}

VARIABLES
    job,             \* which main() runs
    args_max_workers,\* args.max_workers
    cfg_max_workers, \* cfg.get("max_workers")
    max_workers,     \* effective pool width (0 before it is computed)
    inputs,          \* the resolved input list
    pc,              \* position of the main thread
    next_submit,     \* next position of inputs to submit / to process (mp2)
    queue,           \* executor work queue: submitted, not yet started
    fut,             \* per position: the future of its process_asin call
    calls,           \* per position: number of adapter calls made
    collected,       \* positions whose future as_completed has yielded
    all_dfs,         \* price: list of per-item row lists, in collection order
    payloads_by_asin,\* details: dict asin -> payload
    payloads,        \* details/mp2: list handed to normalize_records
    failures,        \* failures list
    rows,            \* rows of the final DataFrame
    now,             \* the clock read by datetime.now()
    extracted_at,    \* price: the run timestamp taken before the pool starts
    sink_writes,     \* number of writes made to the sink (local file or GCS)
    args,            \* input flags: input_file, input_file_gcs, bq_table, max_items
    cfg_bq_table,    \* cfg.get("bq_table")
    source_data,     \* what the input source holds: text lines / column values
    secret_env,      \* where secrets are provisioned: env vars, file, store
    api_secret,      \* what load_secret gave
    network,         \* remote services called before the harvest
    resolved_from,   \* the source the input list was read from
    max_pages,       \* listing: config.get("max_pages")
    page_num,        \* listing: the page counter of fetch_all_product_pages
    page_calls       \* listing: provider calls made by fetch_all_product_pages

\* The variables of main() before the input list exists.
pre == <<args, cfg_bq_table, source_data, secret_env, api_secret, network,
         resolved_from>>

vars == <<job, args_max_workers, cfg_max_workers, max_workers, inputs, pc,
          next_submit, queue, fut, calls, collected, all_dfs,
          payloads_by_asin, payloads, failures, rows, now, extracted_at,
          sink_writes, args, cfg_bq_table, source_data, secret_env,
          api_secret, network, resolved_from, max_pages, page_num,
          page_calls>>

\* The variables of fetch_all_product_pages.
listing == <<max_pages, page_num, page_calls>>

\* fetch_all_product_pages is not running.
NoListing == max_pages = None /\ page_num = 1 /\ page_calls = 0

Positions == 1..Len(inputs)

\* ------------------------------------------------------- provider / faults
\* What the HTTP exchange of one request does: a parsed body with n offers
\* ("content"), a parsed body without content ("empty"), the JSON value null
\* ("null"), or an exception raised by requests ("fail": timeout, HTTP error,
\* undecodable body).
\* A content block also has, or lacks, product fields: casin says which asin
\* it reports ("echo": the one asked for, "other": another one, "none": no
\* "asin" key); title is the value of "title" (NullField when absent).
NullField == <<>>
OtherAsin == <<"X">>

\* delivery gives, per offer, its "delivery_options": None when the key is
\* missing, <<k>> for a list of k options.
NoDeliveryKey(n) == [k \in 1..n |-> None]

NoContentOutcomes ==
    [kind : {"empty", "null", "fail"}, n : {0}, casin : {"none"}, title : {NullField},
     delivery : {<<>>}]

NetOutcomes ==
    {[kind |-> "content", n |-> n, casin |-> "echo", title |-> <<"T">>,
      delivery |-> NoDeliveryKey(n)] : n \in 1..MaxOffers}
    \cup NoContentOutcomes

\* Every shape of provider result, for the per-item functions.
MaxDelivery == 2

DeliveryValues == {None} \cup {<<k>> : k \in 0..MaxDelivery}

RichOutcomes ==
    UNION {[kind : {"content"}, n : {n}, casin : {"echo", "other", "none"},
            title : {<<"T">>, NullField}, delivery : [1..n -> DeliveryValues]]
           : n \in 0..MaxOffers}
    \cup NoContentOutcomes

\* What else can go wrong in a worker: nothing, time.sleep raising, or an
\* exception that leaves process_asin.
Faults == {"none", "sleep", "escape"}

\* ------------------------------------------------------------- adapters
ErrorPayload(msg, pos, item) ==
    [kind |-> "error", n |-> 0, msg |-> msg, req |-> pos, query |-> item,
     casin |-> NullField, title |-> NullField, delivery |-> <<>>]

\* The parsed body of a successful exchange for asin.
ParsedBody(item, pos, net) ==
    [kind |-> net.kind, n |-> net.n, msg |-> "", req |-> pos, query |-> item,
     casin |-> IF net.casin = "echo" THEN item
               ELSE IF net.casin = "other" THEN OtherAsin ELSE NullField,
     title |-> net.title, delivery |-> net.delivery]

\* call_oxylabs: the whole exchange is inside try/except Exception.
call_oxylabs(asin, pos, net) ==
    IF net.kind = "fail"
    THEN [raised |-> FALSE, value |-> ErrorPayload("http", pos, asin)]
    ELSE [raised |-> FALSE, value |-> ParsedBody(asin, pos, net)]

\* str.split("://", 1): the parts around the first occurrence of "://".
SepAt(s, i) == i + 2 <= Len(s) /\ s[i] = ":" /\ s[i + 1] = "/" /\ s[i + 2] = "/"

SplitScheme(s) ==
    LET hits == {i \in 1..Len(s) : SepAt(s, i)}
    IN  IF hits = {}
        THEN <<s>>
        ELSE LET i == CHOOSE j \in hits : \A k \in hits : j <= k
             IN  <<SubSeq(s, 1, i - 1), SubSeq(s, i + 3, Len(s))>>

\* urllib.parse.quote(rest, safe="=") on the characters used here.
QuoteChar(c) == IF c = "/" THEN "%2F" ELSE IF c = ":" THEN "%3A" ELSE c

\* _encode_otto_url: "scheme, rest = url.split(...)" raises ValueError unless
\* the split yields exactly two parts.
_encode_otto_url(url) ==
    LET parts == SplitScheme(url)
    IN  IF Len(parts) # 2
        THEN [raised |-> TRUE, value |-> <<>>]
        ELSE [raised |-> FALSE,
              value |-> parts[1] \o <<":", "%2F", "%2F">>
                        \o [i \in 1..Len(parts[2]) |-> QuoteChar(parts[2][i])]]

\* call_axesso: the URL is encoded before the try block is entered.
call_axesso(item, pos, net) ==
    IF _encode_otto_url(item).raised
    THEN [raised |-> TRUE, value |-> ErrorPayload("exc", pos, item)]
    ELSE IF net.kind = "fail"
    THEN [raised |-> FALSE, value |-> ErrorPayload("http", pos, item)]
    ELSE [raised |-> FALSE, value |-> ParsedBody(item, pos, net)]

\* --------------------------------------------------- price-listing rows
RECURSIVE Concat(_)
\* pd.concat(all_dfs, ignore_index=True); also the rows list of flatten_pricing
Concat(dfs) == IF dfs = <<>> THEN <<>> ELSE Head(dfs) \o Concat(Tail(dfs))

\* offer is offer_position, delivery is delivery_option_position; 0 is null.
Row(pos, asin, title, status, msg, offer, delivery, ts) ==
    [origin |-> pos, asin |-> asin, title |-> title, status |-> status,
     msg |-> msg, offer |-> offer, delivery |-> delivery, extracted_at |-> ts]

\* extract_content: results[0]["content"], or None.
extract_content(resp) ==
    IF resp.kind = "content"
    THEN [present |-> TRUE, offers |-> resp.n, asin |-> resp.casin,
          title |-> resp.title, delivery |-> resp.delivery]
    ELSE [present |-> FALSE, offers |-> 0, asin |-> NullField, title |-> NullField,
          delivery |-> <<>>]

\* "not content": None or a dict without keys.
ContentIsEmpty(content) ==
    \/ ~content.present
    \/ (content.offers = 0 /\ content.asin = NullField /\ content.title = NullField)

\* x or y on optional strings.
OrElse(x, y) == IF x # NullField THEN x ELSE y

\* The rows of offer k: "for delivery_idx, d in enumerate(delivery_opts)" with
\* delivery_opts = offer.get("delivery_options", [None]).
OfferRows(content, pos, ts, k) ==
    IF content.delivery[k] = None
    THEN <<Row(pos, content.asin, content.title, "offer", "", k, 0, ts)>>
    ELSE [j \in 1..content.delivery[k][1] |->
            Row(pos, content.asin, content.title, "offer", "", k, j, ts)]

flatten_pricing(content, pos, ts) ==
    IF ContentIsEmpty(content)
    THEN <<>>
    ELSE Concat([k \in 1..content.offers |-> OfferRows(content, pos, ts, k)])

\* Variant: the placeholder row has every content field null.
NoPricingRowAllNull(asin, content, pos, ts) ==
    <<Row(pos, OrElse(content.asin, asin), NullField, "no_offers", "", 0, 0, ts)>>

build_no_pricing_row(asin, content, pos, ts) ==
    <<Row(pos, OrElse(content.asin, asin), content.title, "no_offers", "", 0, 0, ts)>>

build_error_row(asin, pos, ts, msg) ==
    <<Row(pos, asin, NullField, "error", msg, 0, 0, ts)>>

\* Variant: the placeholder row for an item without offers is forgotten.
OfferRowsNoPlaceholder(asin, resp, pos, ts) ==
    flatten_pricing(extract_content(resp), pos, ts)

\* Rows of a response that is neither an error dict nor null.
OfferRowsOrPlaceholder(asin, resp, pos, ts) ==
    LET df_offer == flatten_pricing(extract_content(resp), pos, ts)
    IN  IF df_offer = <<>>
        THEN build_no_pricing_row(asin, extract_content(resp), pos, ts)
        ELSE df_offer

\* process_asin of the price job, from the adapter's return value on: (df,
\* error), whether the throttle sleep was performed, and whether an exception
\* left the function.  "error" in resp raises TypeError on a null body.
process_asin_price(asin, pos, resp, fault, ts) ==
    LET caught(msg) == [raised |-> FALSE, slept |-> FALSE,
                        df |-> build_error_row(asin, pos, ts, msg), error |-> msg]
    IN  IF fault = "escape"
        THEN [raised |-> TRUE, slept |-> FALSE, df |-> <<>>, error |-> "exc"]
        ELSE IF resp.kind = "null"
        THEN caught("TypeError")
        ELSE IF fault = "sleep"
        THEN caught("sleep failed")
        ELSE IF resp.kind = "error"
        THEN [raised |-> FALSE, slept |-> TRUE,
              df |-> build_error_row(asin, pos, ts, resp.msg), error |-> resp.msg]
        ELSE [raised |-> FALSE, slept |-> TRUE,
              df |-> OfferRowsOrPlaceholder(asin, resp, pos, ts), error |-> ""]

\* process_asin of the product-details job, from the adapter's return value
\* on: no try/except of its own, so a failing time.sleep leaves the function.
process_asin_details(pos, resp, fault) ==
    IF fault # "none"
    THEN [raised |-> TRUE, slept |-> FALSE]
    ELSE [raised |-> FALSE, slept |-> TRUE, payload |-> resp]

\* ------------------------------------------------- product-details rows
IsErrorPayload(payload) == payload.kind = "error"

\* normalize_records: the status of one payload.
RowStatus(payload) ==
    IF IsErrorPayload(payload) THEN "error"
    ELSE IF ContentIsEmpty(extract_content(payload)) THEN "no_content"
    ELSE "ok"

\* normalize_records: the content dict the fields are read from ({} for an
\* error payload or a payload without content).
RowContent(payload) == extract_content(payload)

MinLen(a, b) == IF Len(a) <= Len(b) THEN Len(a) ELSE Len(b)

\* normalize_records: zip(input_items, raw_records), one row per pair, all
\* with the timestamp taken at the start of the call.
normalize_records(raw_records, input_items, ts) ==
    [i \in 1..MinLen(input_items, raw_records) |->
        [origin |-> i, input |-> input_items[i],
         asin |-> OrElse(RowContent(raw_records[i]).asin, input_items[i]),
         title |-> RowContent(raw_records[i]).title,
         status |-> RowStatus(raw_records[i]),
         msg |-> IF IsErrorPayload(raw_records[i]) THEN raw_records[i].msg ELSE "",
         payload |-> raw_records[i],
         extracted_at |-> ts]]

\* normalize_records of the mp2 job: input_value, extracted_at, payload.
normalize_records_mp2(raw_records, input_items, ts) ==
    [i \in 1..MinLen(input_items, raw_records) |->
        [origin |-> i, input |-> input_items[i], payload |-> raw_records[i],
         extracted_at |-> ts]]

\* ------------------------------------------------------ configuration
Truthy(opt) == opt # None /\ opt[1] # 0

\* max_workers = args.max_workers or cfg.get("max_workers") or <default>;
\* if max_workers < 1: max_workers = 1
EffectiveMaxWorkers(arg, cfg, dflt) ==
    LET v == IF Truthy(arg) THEN arg[1] ELSE IF Truthy(cfg) THEN cfg[1] ELSE dflt
    IN  IF v < 1 THEN 1 ELSE v

DefaultWorkers(j) == IF j = "price" THEN DefaultWorkersPrice ELSE DefaultWorkersDetails

\* ------------------------------------------------------------- secrets
\* Texts are character sequences; an optional text is None or <<text>>.
Whitespace == {" ", "\n"}

RECURSIVE LStrip(_)
LStrip(s) == IF s # <<>> /\ Head(s) \in Whitespace THEN LStrip(Tail(s)) ELSE s

RECURSIVE RStrip(_)
RStrip(s) ==
    IF s # <<>> /\ s[Len(s)] \in Whitespace
    THEN RStrip(SubSeq(s, 1, Len(s) - 1))
    ELSE s

\* str.strip()
Strip(s) == RStrip(LStrip(s))

SecretTexts == {<<>>, <<"s">>, <<"s", "\n">>}
OptionalSecrets == {None} \cup {<<t>> : t \in SecretTexts}

\* A provisioning of one secret: the values of its candidate environment
\* variables in lookup order, the file /etc/secrets/<name>, whether
\* gcp_config has a project_id, and the version held by Secret Manager.
SecretEnvs ==
    [env : [1..2 -> OptionalSecrets], file : OptionalSecrets,
     project_id : BOOLEAN, store : OptionalSecrets]

\* The provisionings with a clean value in one place only.
MountedSecret ==
    [env |-> <<None, None>>, file |-> <<<<"s">>>>, project_id |-> TRUE,
     store |-> None]
StoredSecret ==
    [env |-> <<None, None>>, file |-> None, project_id |-> TRUE,
     store |-> <<<<"s">>>>]

\* The provisionings that hold no value: a mounted file without content, and
\* nothing anywhere.
EmptyMountedSecret ==
    [env |-> <<None, None>>, file |-> <<<<>>>>, project_id |-> TRUE,
     store |-> None]
NoSecret ==
    [env |-> <<None, None>>, file |-> None, project_id |-> TRUE,
     store |-> None]

Loaded(value, net) == [raised |-> FALSE, value |-> value, net |-> net]
LoadFailed(net) == [raised |-> TRUE, value |-> <<>>, net |-> net]

\* "for env_name in env_candidates: val = os.getenv(env_name); if val:"
FirstTruthyEnv(cands) ==
    LET hits == {i \in 1..Len(cands) : cands[i] # None /\ cands[i][1] # <<>>}
    IN  IF hits = {} THEN None
        ELSE cands[CHOOSE i \in hits : \A k \in hits : i <= k]

\* The mounted file, then Secret Manager (a network call).
load_secret_details(e) ==
    IF e.file # None THEN Loaded(Strip(e.file[1]), {})
    ELSE IF ~e.project_id THEN LoadFailed({})
    ELSE IF e.store = None THEN LoadFailed({"secret_store"})
    ELSE Loaded(Strip(e.store[1]), {"secret_store"})

\* load_secret of the price job: environment first, returned as it is.
load_secret(e) ==
    IF FirstTruthyEnv(e.env) # None
    THEN Loaded(FirstTruthyEnv(e.env)[1], {})
    ELSE load_secret_details(e)

load_axesso_api_key(e) == load_secret_details(e)

LoadedSecret(j, e) ==
    IF j = "price" THEN load_secret(e)
    ELSE IF j = "details" THEN load_secret_details(e)
    ELSE load_axesso_api_key(e)

NotLoaded == [raised |-> FALSE, value |-> <<>>, net |-> {}]

\* -------------------------------------------------------- input sources
MaxLines == 3

Stdin == <<"-">>
FilePath == <<"f">>
GcsUri == <<"g">>
FlagTable == <<"t">>
ConfigTable == <<"c">>

\* Lines of an input text: blank, whitespace only, an item, a padded item.
RawLines == {<<"\n">>, <<" ", "\n">>, <<"A", "\n">>, <<" ", "B", " ", "\n">>}

MaxItemsValues == {None, <<0>>, <<1>>, <<2>>}

RECURSIVE ReadLines(_, _, _)
\* The loop shared by read_input_from_file and read_input_from_gcs: strip,
\* keep the non-empty, stop once max_items (when truthy) lines are kept.
ReadLines(rest, lines, max_items) ==
    IF rest = <<>> THEN lines
    ELSE LET val == Strip(Head(rest))
         IN  IF val = <<>> THEN ReadLines(Tail(rest), lines, max_items)
             ELSE IF Truthy(max_items) /\ Len(lines) + 1 >= max_items[1]
             THEN Append(lines, val)
             ELSE ReadLines(Tail(rest), Append(lines, val), max_items)

read_input_from_file(data, max_items) == ReadLines(data, <<>>, max_items)

read_input_from_gcs(data, max_items) == ReadLines(data, <<>>, max_items)

\* main, for --input-file -: [line.strip() for line in sys.stdin if line.strip()]
read_stdin(data) == ReadLines(data, <<>>, None)

\* LIMIT max_items (when truthy) in the query, then "if row.val".
read_input_from_bigquery(data, max_items) ==
    LET got == IF Truthy(max_items) /\ max_items[1] < Len(data)
               THEN SubSeq(data, 1, max_items[1])
               ELSE data
    IN  SelectSeq(got, LAMBDA v : v # <<>>)

\* provided_sources; the mp2 job has no such list.
ProvidedSources(j, a) ==
    IF j = "price"
    THEN <<a.input_file_gcs # None, a.input_file # None, a.bq_table # None>>
    ELSE IF j = "details"
    THEN <<a.input_file # None, a.bq_table # None>>
    ELSE <<>>

\* sum(provided_sources) > 1
TooManySources(j, a) ==
    Cardinality({i \in 1..Len(ProvidedSources(j, a)) : ProvidedSources(j, a)[i]}) > 1

\* Variant: the config default is not looked at.
FlagBqTableOnly(arg, cfg) == arg

\* selected_bq_table = args.bq_table or cfg_bq_table
SelectedBqTable(arg, cfg) == IF arg # None THEN arg ELSE cfg

Resolved(kind, name, items, net) ==
    [error |-> FALSE, kind |-> kind, name |-> name, items |-> items, net |-> net]

NotResolved == [kind |-> "none", name |-> None]

\* The if / elif / else chain of main that fills inputs.
ResolveInputs(j, a, cfg_table, data) ==
    IF j = "price" /\ a.input_file_gcs # None
    THEN Resolved("gcs", a.input_file_gcs,
                  read_input_from_gcs(data, a.max_items), {"gcs"})
    ELSE IF a.input_file # None
    THEN IF a.input_file = Stdin
         THEN Resolved("stdin", Stdin, read_stdin(data), {})
         ELSE Resolved("file", a.input_file,
                       read_input_from_file(data, a.max_items), {})
    ELSE LET table == IF j = "mp2" THEN a.bq_table
                      ELSE SelectedBqTable(a.bq_table, cfg_table)
         IN  IF table = None
             THEN [error |-> TRUE, kind |-> "none", name |-> None,
                   items |-> <<>>, net |-> {}]
             ELSE Resolved("bq", table,
                           read_input_from_bigquery(data, a.max_items),
                           {"bigquery"})

\* A run whose input list was read from a local file holding it.
FromFile ==
    [input_file |-> FilePath, input_file_gcs |-> None, bq_table |-> None,
     max_items |-> None]

\* ------------------------------------------------------------ the run
NoResult == [raised |-> FALSE]

Future(st, res) == [st |-> st, res |-> res]

InputSets(j) == IF j = "mp2" THEN Urls ELSE Asins

Init ==
    /\ job \in Jobs
    /\ args_max_workers \in (IF job = "mp2" THEN {None} ELSE ArgWorkerValues)
    /\ cfg_max_workers \in (IF job = "mp2" THEN {None} ELSE CfgWorkerValues)
    /\ inputs \in SeqsUpTo(InputSets(job), MaxItems)
    /\ max_workers = 0
    /\ pc = "start"
    /\ next_submit = 1
    /\ queue = <<>>
    /\ fut = [p \in 1..Len(inputs) |-> Future("new", NoResult)]
    /\ calls = [p \in 1..Len(inputs) |-> 0]
    /\ collected = {}
    /\ all_dfs = <<>>
    /\ payloads_by_asin = <<>>
    /\ payloads = <<>>
    /\ failures = <<>>
    /\ rows = <<>>
    /\ now = 0
    /\ extracted_at = 0
    /\ sink_writes = 0
    /\ args = FromFile
    /\ cfg_bq_table = None
    /\ source_data = inputs
    /\ secret_env = MountedSecret
    /\ api_secret = LoadedSecret(job, secret_env)
    /\ network = {}
    /\ resolved_from = [kind |-> "file", name |-> FilePath]
    /\ NoListing

\* Variant: the emptiness of the input list is not looked at.
AfterResolveUnchecked(items, j) == IF j \in PoolJobs THEN "submit" ELSE "loop"

\* "if not inputs: warning; return", else on to the pool / the loop.
AfterResolve(items, j) ==
    IF items = <<>> THEN "returned"
    ELSE IF j \in PoolJobs THEN "submit" ELSE "loop"

\* main() up to the creation of the pool / the start of the loop.
Configure ==
    /\ pc = "start"
    /\ max_workers' = IF job \in PoolJobs
                      THEN EffectiveMaxWorkers(args_max_workers, cfg_max_workers,
                                               DefaultWorkers(job))
                      ELSE 0
    /\ pc' = AfterResolve(inputs, job)
    /\ extracted_at' = IF job = "price" /\ inputs # <<>> THEN now ELSE extracted_at
    /\ now' = now + 1
    /\ UNCHANGED pre
    /\ UNCHANGED listing
    /\ UNCHANGED <<job, sink_writes, args_max_workers, cfg_max_workers, inputs, next_submit,
                   queue, fut, calls, collected, all_dfs, payloads_by_asin,
                   payloads, failures, rows>>

\* executor.submit(process_asin, ...) for the next asin of inputs: the work
\* item is queued and submit returns at once.
Submit ==
    /\ pc = "submit"
    /\ queue' = Append(queue, next_submit)
    /\ fut' = [fut EXCEPT ![next_submit] = Future("queued", NoResult)]
    /\ next_submit' = next_submit + 1
    /\ pc' = IF next_submit = Len(inputs) THEN "collect" ELSE "submit"
    /\ now' = now + 1
    /\ UNCHANGED pre
    /\ UNCHANGED listing
    /\ UNCHANGED <<job, extracted_at, sink_writes, args_max_workers, cfg_max_workers, max_workers, inputs,
                   calls, collected, all_dfs, payloads_by_asin, payloads,
                   failures, rows>>

\* Positions whose process_asin runs on a pool thread.
Running == {p \in Positions : fut[p].st \in {"calling", "returned"}}

\* Positions whose provider call has started and not yet returned.
InFlight == {p \in Positions : fut[p].st = "calling"}

\* Variant: the pool admits one thread more than its width.
PoolAdmitsOneMore(busy, width) == busy <= width

\* ThreadPoolExecutor(max_workers=n): at most n threads, one work item each.
PoolHasFreeThread(busy, width) == busy < width

\* A pool thread takes the oldest queued work item and enters call_oxylabs.
StartCall ==
    /\ job \in PoolJobs
    /\ pc \in {"submit", "collect"}
    /\ queue # <<>>
    /\ PoolHasFreeThread(Cardinality(Running), max_workers)
    /\ LET p == Head(queue)
       IN  /\ fut' = [fut EXCEPT ![p] = Future("calling", NoResult)]
           /\ calls' = [calls EXCEPT ![p] = @ + 1]
    /\ queue' = Tail(queue)
    /\ now' = now + 1
    /\ UNCHANGED pre
    /\ UNCHANGED listing
    /\ UNCHANGED <<job, extracted_at, sink_writes, args_max_workers, cfg_max_workers, max_workers, inputs,
                   pc, next_submit, collected, all_dfs, payloads_by_asin,
                   payloads, failures, rows>>

\* call_oxylabs returns to process_asin.
CallReturns(p, net) ==
    /\ job \in PoolJobs
    /\ fut[p].st = "calling"
    /\ fut' = [fut EXCEPT ![p] = Future("returned", call_oxylabs(inputs[p], p, net))]
    /\ now' = now + 1
    /\ UNCHANGED pre
    /\ UNCHANGED listing
    /\ UNCHANGED <<job, extracted_at, sink_writes, args_max_workers, cfg_max_workers, max_workers, inputs,
                   pc, next_submit, queue, calls, collected, all_dfs,
                   payloads_by_asin, payloads, failures, rows>>

\* Variant: the worker stamps its rows with its own reading of the clock.
WorkerOwnTimestamp(shared, clock) == clock

\* The extracted_at argument given to executor.submit: the run's timestamp.
WorkerExtractedAt(shared, clock) == shared

\* The rest of process_asin: build the result, throttle, leave the thread.
WorkerFinishes(p, fault) ==
    /\ job \in PoolJobs
    /\ fut[p].st = "returned"
    /\ fut' = [fut EXCEPT ![p] =
                 Future("done",
                        IF job = "price"
                        THEN process_asin_price(inputs[p], p, fut[p].res.value, fault,
                                                WorkerExtractedAt(extracted_at, now))
                        ELSE process_asin_details(p, fut[p].res.value, fault))]
    /\ now' = now + 1
    /\ UNCHANGED pre
    /\ UNCHANGED listing
    /\ UNCHANGED <<job, extracted_at, sink_writes, args_max_workers, cfg_max_workers, max_workers, inputs,
                   pc, next_submit, queue, calls, collected, all_dfs,
                   payloads_by_asin, payloads, failures, rows>>

\* Variant: the write follows the first future collected.
AfterFirstCollect(p) == "assemble"

\* The with-block is left, and the result assembled, when the loop over the
\* futures has seen every one of them.
AfterCollect(p) == IF collected \cup {p} = Positions THEN "assemble" ELSE "collect"

\* Variant: only futures that returned a result are handed out.
CompletedWithResult(f) == f.st = "done" /\ ~f.res.raised

\* as_completed(futures) hands out a future once it is finished, whether it
\* returned or raised.
as_completed(f) == f.st = "done"

\* One iteration of "for idx, future in enumerate(as_completed(futures))" of
\* the price job.
CollectPrice(p) ==
    /\ job = "price"
    /\ pc = "collect"
    /\ as_completed(fut[p])
    /\ p \notin collected
    /\ LET res == fut[p].res
       IN  IF res.raised
           THEN /\ failures' = Append(failures, inputs[p])
                /\ UNCHANGED all_dfs
           ELSE IF res.df = <<>>
           THEN /\ failures' = Append(failures, inputs[p])
                /\ UNCHANGED all_dfs
           ELSE /\ all_dfs' = Append(all_dfs, res.df)
                /\ UNCHANGED failures
    /\ collected' = collected \cup {p}
    /\ pc' = AfterCollect(p)
    /\ now' = now + 1
    /\ UNCHANGED pre
    /\ UNCHANGED listing
    /\ UNCHANGED <<job, extracted_at, sink_writes, args_max_workers, cfg_max_workers, max_workers, inputs,
                   next_submit, queue, fut, calls, payloads_by_asin, payloads,
                   rows>>

\* A dict is kept as its items in insertion order; assigning to a key that is
\* present replaces the value in place.
DictHas(d, k) == \E i \in 1..Len(d) : d[i].k = k

DictSet(d, k, v) ==
    IF DictHas(d, k)
    THEN [i \in 1..Len(d) |-> IF d[i].k = k THEN [k |-> k, v |-> v] ELSE d[i]]
    ELSE Append(d, [k |-> k, v |-> v])

DictGet(d, k, dflt) ==
    IF DictHas(d, k) THEN d[CHOOSE i \in 1..Len(d) : d[i].k = k].v ELSE dflt

\* The payload the details job keeps for a collected future.
CollectedPayload(p, res) ==
    IF res.raised THEN ErrorPayload("exc", p, inputs[p])
    ELSE IF res.payload.kind = "null" THEN ErrorPayload("Empty payload", p, inputs[p])
    ELSE res.payload

\* The asins the details job appends to failures for a collected future.
CollectedFailures(p, res) ==
    (IF res.raised THEN <<inputs[p]>> ELSE <<>>)
    \o (IF ~res.raised /\ res.payload.kind = "null" THEN <<inputs[p]>>
        ELSE IF IsErrorPayload(CollectedPayload(p, res)) THEN <<inputs[p]>>
        ELSE <<>>)

\* One iteration of the as_completed loop of the product-details job.
CollectDetails(p) ==
    /\ job = "details"
    /\ pc = "collect"
    /\ as_completed(fut[p])
    /\ p \notin collected
    /\ failures' = failures \o CollectedFailures(p, fut[p].res)
    /\ payloads_by_asin' = DictSet(payloads_by_asin, inputs[p],
                                   CollectedPayload(p, fut[p].res))
    /\ collected' = collected \cup {p}
    /\ pc' = AfterCollect(p)
    /\ now' = now + 1
    /\ UNCHANGED pre
    /\ UNCHANGED listing
    /\ UNCHANGED <<job, extracted_at, sink_writes, args_max_workers, cfg_max_workers, max_workers, inputs,
                   next_submit, queue, fut, calls, all_dfs, payloads, rows>>

\* Variant: the frame is ordered by offer position after the concat.
FinalFrameByOffer(dfs) ==
    SelectSeq(Concat(dfs), LAMBDA r : r.offer <= 1)
    \o SelectSeq(Concat(dfs), LAMBDA r : r.offer > 1)

\* df = pd.concat(all_dfs, ignore_index=True)
FinalFrame(dfs) == Concat(dfs)

\* Where the frame goes: --no-upload ("local"), a configured bucket ("gcs"),
\* or no gcs_bucket_name in the source parameters ("nobucket").
SinkConfigs == {"local", "gcs", "nobucket"}

\* Writes made for a frame: df.to_json to a local file, or save_to_gcs, which
\* in the pool jobs skips an empty frame.
SinkWrites(j, sink, df) ==
    IF sink = "nobucket" THEN 0
    ELSE IF sink = "gcs" /\ j \in PoolJobs /\ df = <<>> THEN 0
    ELSE 1

\* sys.exit("gcs_bucket_name missing") or "Job completed".
AfterSave(sink) == IF sink = "nobucket" THEN "fatal" ELSE "done"

\* Variant: the check for an empty result is missing.
NothingIsNoData(dfs) == FALSE

\* "if not all_dfs": nothing to save.
NoDataToSave(dfs) == dfs = <<>>

\* After the pool is shut down: sys.exit on no data, else concat and save.
AssemblePrice(sink) ==
    /\ job = "price"
    /\ pc = "assemble"
    /\ IF NoDataToSave(all_dfs)
       THEN pc' = "fatal" /\ UNCHANGED <<rows, sink_writes>>
       ELSE /\ rows' = FinalFrame(all_dfs)
            /\ sink_writes' = sink_writes + SinkWrites(job, sink, rows')
            /\ pc' = AfterSave(sink)
    /\ now' = now + 1
    /\ UNCHANGED pre
    /\ UNCHANGED listing
    /\ UNCHANGED <<job, extracted_at, args_max_workers, cfg_max_workers, max_workers, inputs,
                   next_submit, queue, fut, calls, collected, all_dfs,
                   payloads_by_asin, payloads, failures>>

\* Variant: the payloads are taken in the dict's own order.
PayloadsInDictOrder(by_asin, items) == [i \in 1..Len(by_asin) |-> by_asin[i].v]

\* payloads = [payloads_by_asin.get(asin, {"error": "Missing result"}) ...]
OrderedPayloads(by_asin, items) ==
    [i \in 1..Len(items) |->
        DictGet(by_asin, items[i], ErrorPayload("Missing result", i, items[i]))]

AssembleDetails(sink) ==
    /\ job = "details"
    /\ pc = "assemble"
    /\ payloads' = OrderedPayloads(payloads_by_asin, inputs)
    /\ rows' = normalize_records(payloads', inputs, now)
    /\ sink_writes' = sink_writes + SinkWrites(job, sink, rows')
    /\ pc' = AfterSave(sink)
    /\ now' = now + 1
    /\ UNCHANGED pre
    /\ UNCHANGED listing
    /\ UNCHANGED <<job, extracted_at, args_max_workers, cfg_max_workers, max_workers, inputs,
                   next_submit, queue, fut, calls, collected, all_dfs,
                   payloads_by_asin, failures>>

\* One iteration of the loop of the mp2 job: call_axesso, append, sleep.  An
\* exception leaving call_axesso ends main().
Mp2Iteration(net) ==
    /\ job = "mp2"
    /\ pc = "loop"
    /\ LET p == next_submit
           r == call_axesso(inputs[p], p, net)
       IN  /\ calls' = [calls EXCEPT ![p] = @ + 1]
           /\ fut' = [fut EXCEPT ![p] =
                        Future(IF r.raised THEN "raised" ELSE "returned", r)]
           /\ IF r.raised
              THEN /\ pc' = "crash"
                   /\ UNCHANGED <<payloads, next_submit>>
              ELSE /\ payloads' = Append(payloads, r.value)
                   /\ next_submit' = p + 1
                   /\ pc' = IF p = Len(inputs) THEN "assemble" ELSE "loop"
    /\ now' = now + 1
    /\ UNCHANGED pre
    /\ UNCHANGED listing
    /\ UNCHANGED <<job, extracted_at, sink_writes, args_max_workers, cfg_max_workers, max_workers, inputs,
                   queue, collected, all_dfs, payloads_by_asin, failures, rows>>

AssembleMp2(sink) ==
    /\ job = "mp2"
    /\ pc = "assemble"
    /\ rows' = normalize_records_mp2(payloads, inputs, now)
    /\ sink_writes' = sink_writes + SinkWrites(job, sink, rows')
    /\ pc' = AfterSave(sink)
    /\ now' = now + 1
    /\ UNCHANGED pre
    /\ UNCHANGED listing
    /\ UNCHANGED <<job, extracted_at, args_max_workers, cfg_max_workers, max_workers, inputs,
                   next_submit, queue, fut, calls, collected, all_dfs,
                   payloads_by_asin, payloads, failures>>

Next ==
    \/ Configure
    \/ Submit
    \/ StartCall
    \/ \E p \in Positions, net \in NetOutcomes : CallReturns(p, net)
    \/ \E p \in Positions, fault \in Faults : WorkerFinishes(p, fault)
    \/ \E p \in Positions : CollectPrice(p)
    \/ \E p \in Positions : CollectDetails(p)
    \/ \E sink \in SinkConfigs : AssemblePrice(sink)
    \/ \E sink \in SinkConfigs : AssembleDetails(sink)
    \/ \E net \in NetOutcomes : Mp2Iteration(net)
    \/ \E sink \in SinkConfigs : AssembleMp2(sink)

Spec == Init /\ [][Next]_vars

\* ------------------------------------- the pool jobs under fair scheduling
\* --max-workers values that give a pool of one and of two threads.
LiveWorkerValues == {<<-1>>, <<2>>}

InitLive ==
    /\ job \in PoolJobs
    /\ args_max_workers \in LiveWorkerValues
    /\ cfg_max_workers = None
    /\ inputs \in SeqsUpTo(Asins, MaxItems) \ {<<>>}
    /\ max_workers = 0
    /\ pc = "start"
    /\ next_submit = 1
    /\ queue = <<>>
    /\ fut = [p \in 1..Len(inputs) |-> Future("new", NoResult)]
    /\ calls = [p \in 1..Len(inputs) |-> 0]
    /\ collected = {}
    /\ all_dfs = <<>>
    /\ payloads_by_asin = <<>>
    /\ payloads = <<>>
    /\ failures = <<>>
    /\ rows = <<>>
    /\ now = 0
    /\ extracted_at = 0
    /\ sink_writes = 0
    /\ args = FromFile
    /\ cfg_bq_table = None
    /\ source_data = inputs
    /\ secret_env = MountedSecret
    /\ api_secret = LoadedSecret(job, secret_env)
    /\ network = {}
    /\ resolved_from = [kind |-> "file", name |-> FilePath]
    /\ NoListing

\* main(): configuration, the submit loop, the as_completed loop, the save.
MainThread ==
    \/ Configure
    \/ Submit
    \/ \E p \in Positions : CollectPrice(p)
    \/ \E p \in Positions : CollectDetails(p)
    \/ \E sink \in SinkConfigs : AssemblePrice(sink)
    \/ \E sink \in SinkConfigs : AssembleDetails(sink)

\* The threads of the executor: take a work item, finish process_asin.
PoolThreads ==
    \/ StartCall
    \/ \E p \in Positions, fault \in Faults : WorkerFinishes(p, fault)

\* The ways a request ends: a response with one offer, without content, with
\* a null body, or an error (the timeout among them).
LiveOutcomes == {net \in NetOutcomes : net.n <= 1}

\* requests.post(..., timeout=...) comes back with a response or an error.
Provider == \E p \in Positions, net \in LiveOutcomes : CallReturns(p, net)

NextLive == MainThread \/ PoolThreads \/ Provider

\* The main thread and the pool threads are scheduled while they can run, and
\* every request ends: by a response, an error or its timeout.
SpecLive ==
    /\ InitLive
    /\ [][NextLive]_vars
    /\ WF_vars(MainThread)
    /\ WF_vars(PoolThreads)
    /\ WF_vars(Provider)

\* --------------------------------------------------- pre-flight of main()
\* username = load_secret(...); password = load_secret(...): both secrets are
\* provisioned the same way, so one lookup stands for the pair.  An exception
\* raised by the lookup leaves main().
LoadSecret ==
    /\ pc = "secrets"
    /\ api_secret' = LoadedSecret(job, secret_env)
    /\ network' = network \cup api_secret'.net
    /\ pc' = IF api_secret'.raised THEN "crash" ELSE "sources"
    /\ now' = now + 1
    /\ UNCHANGED <<args, cfg_bq_table, source_data, secret_env, resolved_from>>
    /\ UNCHANGED listing
    /\ UNCHANGED <<job, extracted_at, sink_writes, args_max_workers, cfg_max_workers,
                   max_workers, inputs, next_submit, queue, fut, calls, collected,
                   all_dfs, payloads_by_asin, payloads, failures, rows>>

\* "if sum(provided_sources) > 1: sys.exit(...)"; the mp2 job goes straight on.
CheckSources ==
    /\ pc = "sources"
    /\ pc' = IF TooManySources(job, args) THEN "config_error" ELSE "resolve"
    /\ now' = now + 1
    /\ UNCHANGED pre
    /\ UNCHANGED listing
    /\ UNCHANGED <<job, extracted_at, sink_writes, args_max_workers, cfg_max_workers,
                   max_workers, inputs, next_submit, queue, fut, calls, collected,
                   all_dfs, payloads_by_asin, payloads, failures, rows>>

\* The input list is read from the selected source, or main() exits because
\* there is none.
ResolveInput ==
    /\ pc = "resolve"
    /\ LET r == ResolveInputs(job, args, cfg_bq_table, source_data)
       IN  /\ inputs' = r.items
           /\ network' = network \cup r.net
           /\ resolved_from' = [kind |-> r.kind, name |-> r.name]
           /\ pc' = IF r.error THEN "config_error" ELSE "start"
    /\ fut' = [p \in 1..Len(inputs') |-> Future("new", NoResult)]
    /\ calls' = [p \in 1..Len(inputs') |-> 0]
    /\ now' = now + 1
    /\ UNCHANGED <<args, cfg_bq_table, source_data, secret_env, api_secret>>
    /\ UNCHANGED listing
    /\ UNCHANGED <<job, extracted_at, sink_writes, args_max_workers, cfg_max_workers,
                   max_workers, next_submit, queue, collected, all_dfs,
                   payloads_by_asin, payloads, failures, rows>>

\* Nothing of the harvest has happened.
HarvestNotStarted ==
    /\ max_workers = 0
    /\ next_submit = 1
    /\ queue = <<>>
    /\ fut = [p \in 1..Len(inputs) |-> Future("new", NoResult)]
    /\ calls = [p \in 1..Len(inputs) |-> 0]
    /\ collected = {}
    /\ all_dfs = <<>>
    /\ payloads_by_asin = <<>>
    /\ payloads = <<>>
    /\ failures = <<>>
    /\ rows = <<>>
    /\ now = 0
    /\ extracted_at = 0
    /\ sink_writes = 0

\* ------------------------------------------- one item, every payload shape
\* A pool job on a one-item input list, the provider answering with any of
\* the payload shapes.
InitItem ==
    /\ job \in PoolJobs
    /\ args_max_workers = None
    /\ cfg_max_workers = None
    /\ inputs \in {<<a>> : a \in Asins}
    /\ pc = "start"
    /\ HarvestNotStarted
    /\ args = FromFile
    /\ cfg_bq_table = None
    /\ source_data = inputs
    /\ secret_env = MountedSecret
    /\ api_secret = LoadedSecret(job, secret_env)
    /\ network = {}
    /\ resolved_from = [kind |-> "file", name |-> FilePath]
    /\ NoListing

NextItem ==
    \/ Configure
    \/ Submit
    \/ StartCall
    \/ \E p \in Positions, net \in RichOutcomes : CallReturns(p, net)
    \/ \E p \in Positions, fault \in Faults : WorkerFinishes(p, fault)
    \/ \E p \in Positions : CollectPrice(p)
    \/ \E p \in Positions : CollectDetails(p)
    \/ \E sink \in SinkConfigs : AssemblePrice(sink)
    \/ \E sink \in SinkConfigs : AssembleDetails(sink)

SpecItem == InitItem /\ [][NextItem]_vars

\* ------------------------------------------------ load_secret on its own
InitSecret ==
    /\ job \in Jobs
    /\ args_max_workers = None
    /\ cfg_max_workers = None
    /\ inputs = <<>>
    /\ pc = "secrets"
    /\ HarvestNotStarted
    /\ args = FromFile
    /\ cfg_bq_table = None
    /\ source_data = <<>>
    /\ secret_env \in SecretEnvs
    /\ api_secret = NotLoaded
    /\ network = {}
    /\ resolved_from = NotResolved
    /\ NoListing

NextSecret == LoadSecret

SpecSecret == InitSecret /\ [][NextSecret]_vars

\* ------------------------------------------- input resolution on its own
\* The flag sets that name exactly one file or object source.
TextSourceArgs(j) ==
    [input_file : {Stdin, FilePath}, input_file_gcs : {None}, bq_table : {None},
     max_items : MaxItemsValues]
    \cup (IF j = "price"
          THEN [input_file : {None}, input_file_gcs : {GcsUri}, bq_table : {None},
                max_items : MaxItemsValues]
          ELSE {})

InitInput ==
    /\ job \in Jobs
    /\ args_max_workers = None
    /\ cfg_max_workers = None
    /\ inputs = <<>>
    /\ pc = "resolve"
    /\ HarvestNotStarted
    /\ args \in TextSourceArgs(job)
    /\ cfg_bq_table = None
    /\ source_data \in SeqsUpTo(RawLines, MaxLines)
    /\ secret_env = MountedSecret
    /\ api_secret = LoadedSecret(job, secret_env)
    /\ network = {}
    /\ resolved_from = NotResolved
    /\ NoListing

NextInput == ResolveInput

SpecInput == InitInput /\ [][NextInput]_vars

\* ------------------------------------------------- a run from its start
\* The flag combinations argparse accepts for a job (only the price job has
\* --input-file-gcs).
SourceArgs(j) ==
    [input_file : {None, FilePath},
     input_file_gcs : IF j = "price" THEN {None, GcsUri} ELSE {None},
     bq_table : {None, FlagTable},
     max_items : {None}]

\* Every source holds the same single item.
SourceFor(j) == IF j = "mp2" THEN <<GoodUrl>> ELSE <<<<"A">>>>

InitPre ==
    /\ job \in Jobs
    /\ args_max_workers = None
    /\ cfg_max_workers = None
    /\ inputs = <<>>
    /\ pc = "secrets"
    /\ HarvestNotStarted
    /\ args \in SourceArgs(job)
    /\ cfg_bq_table \in {None, ConfigTable}
    /\ source_data = SourceFor(job)
    /\ secret_env \in {MountedSecret, StoredSecret, EmptyMountedSecret, NoSecret}
    /\ api_secret = NotLoaded
    /\ network = {}
    /\ resolved_from = NotResolved
    /\ NoListing

NextPre ==
    \/ LoadSecret
    \/ CheckSources
    \/ ResolveInput
    \/ Configure
    \/ Submit
    \/ StartCall
    \/ \E p \in Positions, net \in NetOutcomes : CallReturns(p, net)
    \/ \E p \in Positions, fault \in Faults : WorkerFinishes(p, fault)
    \/ \E p \in Positions : CollectPrice(p)
    \/ \E p \in Positions : CollectDetails(p)
    \/ \E sink \in SinkConfigs : AssemblePrice(sink)
    \/ \E sink \in SinkConfigs : AssembleDetails(sink)
    \/ \E net \in NetOutcomes : Mp2Iteration(net)
    \/ \E sink \in SinkConfigs : AssembleMp2(sink)

SpecPre == InitPre /\ [][NextPre]_vars

\* ------------------------------------------- product listing: pagination
\* fetch_all_product_pages exists twice: in the marketplace1_product_listing
\* package ("listing") and in the jobs package ("jobs_listing").
ListingJobs == {"listing", "jobs_listing"}

HardLimit == 100

MaxPagesValues == {None, <<0>>, <<-1>>, <<1>>, <<2>>, <<3>>, <<101>>}

\* Provider calls explored per run.
MaxPageCalls == 4

\* The effective number of pages to fetch.
EffectiveMaxPages(mp) ==
    IF mp = None \/ mp[1] <= 0 \/ mp[1] > HardLimit THEN HardLimit ELSE mp[1]

\* What a response says about the next page: an error dict ("error"), no
\* "next" URL ("none"), or a "next" URL whose page parameter is the
\* following page ("ahead"), the current page ("same"), page 1 ("first"),
\* not a number ("text") or missing ("nopage").
PageResponses == {"error", "none", "ahead", "same", "first", "text", "nopage"}

\* The page counter after a response with a "next" URL: the listing package
\* takes it from the URL (int(next_params.get("page", page_num + 1)), on
\* ValueError page_num + 1), the jobs package counts itself.
NextPageNum(j, cur, resp) ==
    IF j = "jobs_listing" THEN cur + 1
    ELSE IF resp = "same" THEN cur
    ELSE IF resp = "first" THEN 1
    ELSE cur + 1

\* One iteration of "while True": search.get_dict(), then exit on an error,
\* break on the page limit or on a missing "next", else move to the next page.
FetchPage(resp) ==
    /\ job \in ListingJobs
    /\ pc = "paging"
    /\ page_calls < MaxPageCalls
    /\ page_calls' = page_calls + 1
    /\ IF resp = "error"
       THEN pc' = "fatal" /\ UNCHANGED page_num
       ELSE IF page_num >= EffectiveMaxPages(max_pages) \/ resp = "none"
       THEN pc' = "paged" /\ UNCHANGED page_num
       ELSE pc' = "paging" /\ page_num' = NextPageNum(job, page_num, resp)
    /\ now' = now + 1
    /\ UNCHANGED max_pages
    /\ UNCHANGED pre
    /\ UNCHANGED <<job, extracted_at, sink_writes, args_max_workers, cfg_max_workers,
                   max_workers, inputs, next_submit, queue, fut, calls, collected,
                   all_dfs, payloads_by_asin, payloads, failures, rows>>

InitPages ==
    /\ job \in ListingJobs
    /\ args_max_workers = None
    /\ cfg_max_workers = None
    /\ inputs = <<>>
    /\ pc = "paging"
    /\ HarvestNotStarted
    /\ args = FromFile
    /\ cfg_bq_table = None
    /\ source_data = <<>>
    /\ secret_env = MountedSecret
    /\ api_secret = load_secret_details(secret_env)
    /\ network = {}
    /\ resolved_from = NotResolved
    /\ max_pages \in MaxPagesValues
    /\ page_num = 1
    /\ page_calls = 0

NextPages == \E resp \in PageResponses : FetchPage(resp)

SpecPages == InitPages /\ [][NextPages]_vars

\* ------------------------------------------------------------- properties
Finished == pc \in {"done", "fatal", "crash"}

\* The main thread is at or past "with ThreadPoolExecutor(...)".
PoolCreated == job \in PoolJobs /\ pc \in {"submit", "collect", "assemble", "done", "fatal"}

RowsOf(p) == {i \in 1..Len(rows) : rows[i].origin = p}

\* C1: in the product-details job the payload list handed to
\* normalize_records, and the rows made from it, follow the input order: the
\* i-th payload answers a request for the i-th input item and the i-th row is
\* made from the i-th input item and the i-th payload, whatever the order in
\* which the workers completed.
C1_DetailsPayloadsInInputOrder ==
    (job = "details" /\ pc = "done") =>
        /\ Len(payloads) = Len(inputs)
        /\ Len(rows) = Len(inputs)
        /\ \A i \in Positions :
              /\ payloads[i].query = inputs[i]
              /\ rows[i].input = inputs[i]
              /\ rows[i].payload = payloads[i]

\* C1 witness: a finished product-details run whose first collected item was
\* not the first input item.
C1_Witness ==
    /\ job = "details"
    /\ pc = "done"
    /\ Len(inputs) >= 2
    /\ payloads_by_asin[1].k # inputs[1]
    /\ \A i \in Positions : payloads[i].query = inputs[i]

C3_PayloadOfOwnRequest ==
    (job = "details" /\ pc = "done") =>
        \A i \in Positions : i <= Len(payloads) /\ payloads[i].req = i

NoFutureRaised == \A p \in Positions : fut[p].st = "done" => ~fut[p].res.raised

\* C4: when a pool job ends after every worker returned a result (adapter
\* results: content, no content, error response), every input position has at
\* least one row in the output.
C4_NoItemDropped ==
    (job \in PoolJobs /\ pc \in {"done", "fatal"} /\ NoFutureRaised) =>
        \A p \in Positions : RowsOf(p) # {}

\* C4 witness: a finished price-listing run without a raised future in which
\* one item had no offers and another an error response.
C4_Witness ==
    /\ job = "price"
    /\ pc = "done"
    /\ NoFutureRaised
    /\ \E i, j \in 1..Len(rows) :
          /\ rows[i].status = "no_offers"
          /\ rows[j].status = "error"
    /\ \A p \in Positions : RowsOf(p) # {}

\* C5: an item whose future raised has an error row carrying the exception
\* message in the output of the finished pool job.
C5_RaisedFutureYieldsErrorRow ==
    (job \in PoolJobs /\ pc \in {"done", "fatal"}) =>
        \A p \in Positions :
            fut[p].res.raised =>
                \E i \in RowsOf(p) : rows[i].status = "error" /\ rows[i].msg = "exc"

\* C6: the number of provider calls that have started and not yet returned
\* never exceeds the effective worker count.
C6_ConcurrencyCap ==
    PoolCreated => Cardinality(InFlight) <= max_workers

\* C6 witness: as many calls in flight as the pool is wide while another item
\* waits in the queue.
C6_Witness ==
    /\ PoolCreated
    /\ Cardinality(InFlight) = max_workers
    /\ queue # <<>>

\* The configured concurrency: --max-workers when given, else the config value.
ConfiguredWorkers == IF args_max_workers # None THEN args_max_workers ELSE cfg_max_workers

\* C7: a configured concurrency of 0 or less gives an effective pool width
\* of exactly 1.
C7_NonPositiveClampedToOne ==
    (PoolCreated /\ ConfiguredWorkers # None /\ ConfiguredWorkers[1] <= 0)
        => max_workers = 1

\* C8: every worker execution that returned a result, other than one whose
\* time.sleep call itself failed, performed its throttle sleep before it left
\* the pool thread.
C8_ThrottleOnEveryPath ==
    \A p \in Positions :
        (job \in PoolJobs /\ fut[p].st = "done" /\ ~fut[p].res.raised
            /\ (job = "price" => fut[p].res.error # "sleep failed"))
            => fut[p].res.slept

\* C9: at the end of a run the adapter has been called exactly once for each
\* input position.
C9_OneCallPerPosition ==
    Finished => \A p \in Positions : calls[p] = 1

\* C10: no adapter call raises to its caller.
C10_AdapterNeverRaises ==
    \A p \in Positions : fut[p].st \in {"returned", "raised"} => ~fut[p].res.raised

\* The process exit status: 0 for a normal return from main(), 1 for
\* sys.exit(message) or an uncaught exception.
ExitCode == IF pc \in {"fatal", "crash", "config_error"} THEN 1 ELSE 0

AllFrameRows == {rows[i] : i \in 1..Len(rows)}
                \cup UNION {{all_dfs[a][k] : k \in 1..Len(all_dfs[a])} : a \in 1..Len(all_dfs)}

\* C13: all rows of one run carry the same extracted_at value, whichever
\* worker produced them and whenever it completed.
C13_SharedExtractedAt ==
    \A r1, r2 \in AllFrameRows : r1.extracted_at = r2.extracted_at

\* C13 witness: a finished price-listing run with rows of two items.
C13_Witness ==
    /\ job = "price"
    /\ pc = "done"
    /\ \E i, j \in 1..Len(rows) : rows[i].origin # rows[j].origin
    /\ \A i \in 1..Len(rows) : rows[i].extracted_at = extracted_at

\* C14: a run on a non-empty input list that ends with zero rows ends in a
\* fatal exit without a write to the sink, and a run that reaches "Job
\* completed" has written a non-empty row set.
C14_ZeroRowsIsFatal ==
    /\ (Finished /\ inputs # <<>> /\ rows = <<>>) => (ExitCode = 1 /\ sink_writes = 0)
    /\ pc = "done" => (rows # <<>> /\ sink_writes = 1)

\* C14 witness: a price-listing run in which every future raised exits with
\* "No data to save".
C14_Witness ==
    /\ job = "price"
    /\ pc = "fatal"
    /\ inputs # <<>>
    /\ collected = Positions
    /\ all_dfs = <<>>
    /\ rows = <<>>
    /\ sink_writes = 0

\* C15: with an empty input list no pool is created, nothing is queued or
\* requested and nothing is written.
C15_EmptyInputDoesNothing ==
    inputs = <<>> =>
        /\ pc \in {"start", "returned"}
        /\ ~PoolCreated
        /\ queue = <<>>
        /\ rows = <<>>
        /\ sink_writes = 0

\* C15 witness: a run that returned on an empty input list.
C15_Witness == inputs = <<>> /\ pc = "returned" /\ sink_writes = 0

\* C16: a run whose resolved input list is empty ends with a non-zero exit.
C16_EmptyInputIsFailure ==
    (inputs = <<>> /\ pc # "start") => ExitCode = 1

\* The price worker at position p hands back its result in this step.
PriceWorkerReturns(p) ==
    /\ job = "price"
    /\ fut[p].st = "returned"
    /\ fut'[p].st = "done"
    /\ ~fut'[p].res.raised

\* A response without a leaf unit: no content block, or one without offers.
NoLeafUnit(resp) == resp.kind = "empty" \/ (resp.kind = "content" /\ resp.n = 0)

\* What the price worker made of resp: a captured error gives one error row
\* with that message (the provider's own message unless the throttle sleep
\* raised after it) and null content fields; a response without a leaf unit
\* gives one no_offers row with null offer fields and product_title as its
\* title; all rows of the item have one status.
PriceItemRows(resp, res, product_title) ==
    /\ res.error # "" =>
          /\ Len(res.df) = 1
          /\ res.df[1].status = "error"
          /\ res.df[1].msg = res.error
          /\ (resp.kind = "error" /\ res.slept) => res.error = resp.msg
          /\ res.df[1].title = NullField
          /\ res.df[1].offer = 0
    /\ (res.error = "" /\ NoLeafUnit(resp)) =>
          /\ Len(res.df) = 1
          /\ res.df[1].status = "no_offers"
          /\ res.df[1].offer = 0
          /\ res.df[1].title = product_title
    /\ \A a, b \in 1..Len(res.df) : res.df[a].status = res.df[b].status

\* The rows of the product-details job: one per input position; an error
\* payload gives status error with its message, a payload without content
\* gives status no_content, both with null content fields.
DetailsItemRows ==
    (job = "details" /\ rows # <<>>) =>
        /\ Len(rows) = Len(inputs)
        /\ \A i \in 1..Len(rows) :
              /\ rows[i].origin = i
              /\ rows[i].payload.kind = "error" =>
                    /\ rows[i].status = "error"
                    /\ rows[i].msg = rows[i].payload.msg
                    /\ rows[i].title = NullField
              /\ (\/ rows[i].payload.kind = "empty"
                  \/ /\ rows[i].payload.kind = "content"
                     /\ rows[i].payload.casin = NullField
                     /\ rows[i].payload.title = NullField
                     /\ rows[i].payload.n = 0) =>
                    /\ rows[i].status = "no_content"
                    /\ rows[i].title = NullField

C12_RowCarriesInputItem ==
    \A r \in AllFrameRows : r.asin = inputs[r.origin]

\* The source kinds named on the command line.
FlagSources == {k \in {"input_file", "input_file_gcs", "bq_table"} : args[k] # None}

NoProviderCall == \A p \in Positions : calls[p] = 0

\* C17: with more than one input source kind given the job ends in a
\* configuration error and makes no network call at all: no secret-store
\* lookup, no source read, no provider request.
C17_MultiSourceFailsFast ==
    Cardinality(FlagSources) > 1 =>
        /\ pc \in {"secrets", "sources", "config_error", "crash"}
        /\ network = {}
        /\ NoProviderCall

\* C18: a pool job started without a source flag reads the table named by
\* bq_table of the source config; without that entry it ends in a
\* configuration error, no provider request made and nothing written.
C18_FallsBackToConfigTable ==
    (job \in PoolJobs /\ FlagSources = {}) =>
        /\ (cfg_bq_table # None /\ pc \notin {"secrets", "sources", "resolve", "crash"}) =>
              resolved_from = [kind |-> "bq", name |-> cfg_bq_table]
        /\ cfg_bq_table = None =>
              /\ pc \in {"secrets", "sources", "resolve", "config_error", "crash"}
              /\ NoProviderCall
              /\ rows = <<>>
              /\ sink_writes = 0

\* C18 witness: a pool job without a source flag completed on the items of
\* the configured table.
C18_Witness ==
    /\ job \in PoolJobs
    /\ FlagSources = {}
    /\ resolved_from = [kind |-> "bq", name |-> ConfigTable]
    /\ "bigquery" \in network
    /\ pc = "done"
    /\ rows # <<>>

\* The non-empty trimmed lines of a text, in order.
TrimmedNonEmpty(data) ==
    SelectSeq([i \in 1..Len(data) |-> Strip(data[i])], LAMBDA v : v # <<>>)

FirstN(s, n) == IF n < Len(s) THEN SubSeq(s, 1, n) ELSE s

\* C19: from a file, standard input or a GCS object, with max_items = m the
\* input list is the first m non-empty trimmed lines, in order.
C19_FirstMNonEmptyLines ==
    (resolved_from.kind \in {"file", "stdin", "gcs"} /\ args.max_items # None) =>
        inputs = FirstN(TrimmedNonEmpty(source_data), args.max_items[1])

\* The credential sources in the order environment, mounted file, store.
SecretSources(e) == e.env \o <<e.file, e.store>>

\* The places of e, in lookup order, that hold a non-empty value.
NonEmptySources(e) ==
    {i \in 1..Len(SecretSources(e)) :
        SecretSources(e)[i] # None /\ SecretSources(e)[i][1] # <<>>}

\* C20: when load_secret returns and some source holds a non-empty value, the
\* secret returned is the value, without trailing whitespace, of the first of
\* environment, mounted file and secret store that holds a non-empty one.
C20_FirstNonEmptySecret ==
    (pc = "sources" /\ NonEmptySources(secret_env) # {}) =>
        LET first == CHOOSE i \in NonEmptySources(secret_env) :
                        \A k \in NonEmptySources(secret_env) : i <= k
        IN  api_secret.value = RStrip(SecretSources(secret_env)[first][1])

\* C21: when no credential source holds a value, no provider request is ever
\* issued and the run gets no further than the credential lookup.
C21_NoCredentialNoRequest ==
    NonEmptySources(secret_env) = {} =>
        /\ NoProviderCall
        /\ pc \notin {"submit", "collect", "loop", "assemble", "done"}

\* The provider exchange of position p failed (network error, HTTP error,
\* undecodable body) and the adapter returned its error dict.
FetchFailed(p) ==
    /\ fut[p].st = "done"
    /\ ~fut[p].res.raised
    /\ IF job = "price" THEN fut[p].res.error = "http"
       ELSE /\ fut[p].res.payload.kind = "error"
            /\ fut[p].res.payload.msg = "http"

\* C22: a fetch failure of one item does not end a pool job and does not
\* touch the other items: at the end of a run with such an item every
\* position was requested once and collected, every item whose worker
\* returned a result has rows in the output, made from the answer to its own
\* request, and the run ended fatally only for want of rows or of a bucket.
C22_FetchFailureDoesNotAbort ==
    (job \in PoolJobs /\ Finished /\ \E p \in Positions : FetchFailed(p)) =>
        /\ pc # "crash"
        /\ collected = Positions
        /\ \A q \in Positions : calls[q] = 1
        /\ rows # <<>> =>
              \A q \in Positions :
                  ~fut[q].res.raised =>
                      /\ RowsOf(q) # {}
                      /\ job = "details" =>
                            \A i \in RowsOf(q) : rows[i].payload.req = q
        /\ pc = "fatal" => (rows = <<>> \/ sink_writes = 0)
        /\ sink_writes = 1 => pc = "done"

\* The input positions with an output row of status error or no_offers.
PositionsNotOk ==
    {p \in Positions : \E i \in RowsOf(p) : rows[i].status \in {"error", "no_offers"}}

\* C23: at the end of a price-listing run the failures list has as many
\* entries as there are input items with an error or no_offers row.
C23_FailureCountMatchesRows ==
    (job = "price" /\ pc = "done") => Len(failures) = Cardinality(PositionsNotOk)

\* Positions submitted to the executor whose work item has not completed.
SubmittedNotCompleted ==
    {p \in Positions : fut[p].st \in {"queued", "calling", "returned"}}

\* C24: the number of items submitted and not yet completed never exceeds the
\* pool width (a submission beyond it would have to wait for a free slot).
C24_SubmissionBackPressure ==
    PoolCreated => Cardinality(SubmittedNotCompleted) <= max_workers

\* The row has a column holding the raw payload.
HasRawPayload(row) == "payload" \in DOMAIN row

\* C25: every output row of a completed pool job carries the raw payload
\* received for the request of its own input position.
C25_RawPayloadInEveryRow ==
    (job \in PoolJobs /\ pc = "done") =>
        \A i \in 1..Len(rows) :
            /\ HasRawPayload(rows[i])
            /\ ~fut[rows[i].origin].res.raised => rows[i].payload.req = rows[i].origin

\* C26: fetch_all_product_pages makes at most effective_max_pages provider
\* calls, whatever the responses say about the next page.
C26_AtMostMaxPagesCalls ==
    job \in ListingJobs => page_calls <= EffectiveMaxPages(max_pages)

\* The number of offer rows of df that come from offer k.
RowsOfOffer(df, k) ==
    Cardinality({i \in 1..Len(df) : df[i].status = "offer" /\ df[i].offer = k})

\* The rows claimed for an offer whose "delivery_options" is d.
ExpectedOfferRows(d) == IF d = None \/ d[1] = 0 THEN 1 ELSE d[1]

\* C27: when the price worker gets a successful response with offers, every
\* offer contributes rows: an offer with k >= 1 delivery options gives k rows,
\* an offer without delivery options (key missing, or an empty list) gives
\* exactly one row, and no offer is dropped.
C27_EveryOfferContributes ==
    [][\A p \in Positions :
          (/\ PriceWorkerReturns(p)
           /\ fut[p].res.value.kind = "content"
           /\ fut'[p].res.error = "") =>
              \A k \in 1..fut[p].res.value.n :
                  RowsOfOffer(fut'[p].res.df, k)
                      = ExpectedOfferRows(fut[p].res.value.delivery[k])]_vars

\* C28: in the product-details job every input position contributes at most
\* one entry to failures: a future that raised is recorded exactly once, and
\* failures never has more entries than positions collected, so never more
\* than there are inputs.
C28_OneFailureEntryPerPosition ==
    job = "details" =>
        /\ Len(failures) <= Cardinality(collected)
        /\ Len(failures) <= Len(inputs)

\* Every submitted item is completed and collected, nothing is queued and no
\* worker is on a pool thread.
AllItemsCompleted ==
    /\ collected = Positions
    /\ queue = <<>>
    /\ Running = {}
    /\ \A p \in Positions : fut[p].st = "done"

\* C29: under fair scheduling, with every provider call coming back, a run
\* of a pool job on a non-empty input list eventually reaches a terminal
\* state (done or fatal) in which every submitted item is completed and no
\* worker is in flight.
C29_RunEventuallyTerminal ==
    (job \in PoolJobs /\ inputs # <<>> /\ pc = "start")
        ~> (pc \in {"done", "fatal"} /\ AllItemsCompleted)

\* C29 witness: a run on two items over a pool of one thread has ended after
\* a worker raised, with both items completed and nothing in flight.
C29_Witness ==
    /\ job \in PoolJobs
    /\ Len(inputs) = 2
    /\ max_workers = 1
    /\ pc \in {"done", "fatal"}
    /\ AllItemsCompleted
    /\ \E p \in Positions : fut[p].res.raised

\* C30: in the pool jobs the sink write happens at most once per run, and
\* only after every submitted item has completed and been collected: it is
\* never there while a worker is in flight or an item is queued.
C30_SinkWrittenOnceAfterAll ==
    job \in PoolJobs =>
        /\ sink_writes <= 1
        /\ sink_writes = 1 => AllItemsCompleted

\* C30 witness: the result of a run on two items has been written.
C30_Witness ==
    /\ job \in PoolJobs
    /\ Len(inputs) = 2
    /\ sink_writes = 1
    /\ pc = "done"

====
